---- MODULE Spec2Model ----
(***************************************************************************)
(* A model of the preproc crate: the dependency-tree builder               *)
(* (deps.rs: generate_deptree / build_deptree), the assembler              *)
(* (lib.rs: build_file / subbuild_file), the line scanner and comment      *)
(* parser (process.rs) and the older arena-based pipeline                  *)
(* (lib.rs: process_file / subprocess_file / assemble).                    *)
(*                                                                         *)
(* A text is a sequence of tokens; the token NL is the line terminator.    *)
(* A line is a sequence of tokens without NL.  Recursion of the code is    *)
(* modelled with explicit stacks, one action per call entry, loop          *)
(* iteration and return.                                                   *)
(***************************************************************************)
EXTENDS Integers, Sequences, FiniteSets, TLC

\* ------------------------------------------------------------------ bounds

\* Longest file (in lines) of the exhaustively enumerated two-file systems.
MaxLines == 2

\* Deepest call stack the model follows; deeper recursion ends in "overflow".
MaxDepth == 4

\* ------------------------------------------------------------------ tokens

NL == "\n"
WS == " "
JOIN_SEPARATOR == <<NL>>

\* The comment string handed to CommentParser (the binary's default).
Marker == <<"//">>

\* ---------------------------------------------------------------- str ops

Last(s) == s[Len(s)]

Front(s) == SubSeq(s, 1, Len(s) - 1)

Min(S) == CHOOSE x \in S : \A y \in S : x <= y

Max(S) == CHOOSE x \in S : \A y \in S : y <= x

\* str::lines: the text is split at every terminator; what follows the last
\* terminator is a line only if it is not empty.
Lines(text) ==
    LET nls    == {i \in 1..Len(text) : text[i] = NL}
        ends   == nls \cup (IF Len(text) > 0 /\ text[Len(text)] # NL
                            THEN {Len(text) + 1} ELSE {})
        end(j) == CHOOSE e \in ends : Cardinality({x \in ends : x <= e}) = j
        from(e) == Max({0} \cup {x \in nls : x < e}) + 1
    IN  [j \in 1..Cardinality(ends) |-> SubSeq(text, from(end(j)), end(j) - 1)]

\* [&str]::join(sep), from the i-th line on
RECURSIVE JoinFrom(_, _, _)
JoinFrom(lines, sep, i) ==
    IF i > Len(lines) THEN <<>>
    ELSE IF i = Len(lines) THEN lines[i]
    ELSE lines[i] \o sep \o JoinFrom(lines, sep, i + 1)

Join(lines, sep) == JoinFrom(lines, sep, 1)

\* str::strip_prefix / str::strip_suffix: Option<&str> as [some, rest]
StripPrefix(s, p) ==
    IF Len(s) >= Len(p) /\ SubSeq(s, 1, Len(p)) = p
    THEN [some |-> TRUE, rest |-> SubSeq(s, Len(p) + 1, Len(s))]
    ELSE [some |-> FALSE, rest |-> <<>>]

StripSuffix(s, p) ==
    IF Len(s) >= Len(p) /\ SubSeq(s, Len(s) - Len(p) + 1, Len(s)) = p
    THEN [some |-> TRUE, rest |-> SubSeq(s, 1, Len(s) - Len(p))]
    ELSE [some |-> FALSE, rest |-> <<>>]

\* str::trim_start / str::trim_end
TrimStart(s) ==
    LET solid == {i \in 1..Len(s) : s[i] # WS}
    IN  IF solid = {} THEN <<>> ELSE SubSeq(s, Min(solid), Len(s))

TrimEnd(s) ==
    LET solid == {i \in 1..Len(s) : s[i] # WS}
    IN  IF solid = {} THEN <<>> ELSE SubSeq(s, 1, Max(solid))

Trim(s) == TrimEnd(TrimStart(s))

\* ------------------------------------------------------------- process.rs

\* CommentParser::parse_line: [kind, arg] with kind "None" (not a
\* preprocessing command), "Include", "IncludeLocal" or "Err".
ParseLine(line) ==
    LET m   == StripPrefix(line, Marker)
        amp == StripPrefix(m.rest, <<"&">>)
        rem == amp.rest
        inc == StripPrefix(TrimStart(rem), <<"include">>)
        com == Trim(inc.rest)
        gl  == StripPrefix(com, <<"<">>)
        gr  == StripSuffix(gl.rest, <<">">>)
        ll  == StripPrefix(com, <<"\"">>)
        lr  == StripSuffix(ll.rest, <<"\"">>)
    IN  IF ~(m.some /\ amp.some) THEN [kind |-> "None", arg |-> <<>>]
        ELSE IF ~inc.some
             THEN [kind |-> "Err", arg |-> <<"invalid preproc statement", rem>>]
        ELSE IF gl.some /\ gr.some THEN [kind |-> "Include", arg |-> gr.rest]
        ELSE IF ll.some /\ lr.some THEN [kind |-> "IncludeLocal", arg |-> lr.rest]
        ELSE [kind |-> "Err", arg |-> <<"invalid include statement", rem>>]

IsDirective(line) == ParseLine(line).kind # "None"

\* Commands with 1-based line numbers.
RECURSIVE CommandsOneBased(_, _)
CommandsOneBased(lines, from) ==
    IF from > Len(lines) THEN <<>>
    ELSE LET c == ParseLine(lines[from])
         IN  (IF c.kind = "None" THEN <<>>
              ELSE <<[linenr |-> from, kind |-> c.kind, arg |-> c.arg]>>)
             \o CommandsOneBased(lines, from + 1)

\* The commands of lines[from..], each with its 0-based line number.
RECURSIVE Commands(_, _)
Commands(lines, from) ==
    IF from > Len(lines) THEN <<>>
    ELSE LET c == ParseLine(lines[from])
         IN  (IF c.kind = "None" THEN <<>>
              ELSE <<[linenr |-> from - 1, kind |-> c.kind, arg |-> c.arg]>>)
             \o Commands(lines, from + 1)

\* Source::process reporting the last malformed line instead of the first.
ProcessLastError(lines) ==
    LET bad == {i \in 1..Len(lines) : ParseLine(lines[i]).kind = "Err"}
    IN  IF bad # {}
        THEN [ok |-> FALSE,
              err |-> [kind |-> "ParseError", line |-> Max(bad) - 1,
                       msg |-> ParseLine(lines[Max(bad)]).arg],
              pp |-> <<>>]
        ELSE [ok |-> TRUE, err |-> <<>>, pp |-> Commands(lines, 1)]

\* Source::process: the error of the first malformed line, else all commands.
Process(lines) ==
    LET bad == {i \in 1..Len(lines) : ParseLine(lines[i]).kind = "Err"}
    IN  IF bad # {}
        THEN [ok |-> FALSE,
              err |-> [kind |-> "ParseError", line |-> Min(bad) - 1,
                       msg |-> ParseLine(lines[Min(bad)]).arg],
              pp |-> <<>>]
        ELSE [ok |-> TRUE, err |-> <<>>, pp |-> Commands(lines, 1)]

\* The include points in the reverse of the order they were found in.
GetIncludePointsReversed(pp) ==
    [j \in 1..Len(pp) |->
        [linenr |-> pp[Len(pp) + 1 - j].linenr,
         kind   |-> IF pp[Len(pp) + 1 - j].kind = "Include" THEN "Global" ELSE "Local",
         fname  |-> pp[Len(pp) + 1 - j].arg]]

\* PreprocessPoints::get_include_points: IncludePoint::Global / ::Local
GetIncludePoints(pp) ==
    [j \in 1..Len(pp) |->
        [linenr |-> pp[j].linenr,
         kind   |-> IF pp[j].kind = "Include" THEN "Global" ELSE "Local",
         fname  |-> pp[j].arg]]

\* ---------------------------------------------------------- filefetcher.rs

NameA == "a.txt"
NameB == "b.txt"
NameC == "c.txt"
NameD == "d.txt"

\* The identity the fetcher assigns to a file it finds: its normalized path.
Canon(n) == <<"/w", n>>

\* FileName::Global(name) and FileName::LocalTo(name, to)
Global(name) == [kind |-> "Global", name |-> name, to |-> <<>>]

LocalTo(name, to) == [kind |-> "LocalTo", name |-> name, to |-> to]

VARIABLES
    files,      \* the fetcher's files: name -> raw text
    seed,       \* the seed handed to generate_deptree / process_file
    pc,         \* where the run is
    deptree,    \* deps.rs DepTree: identity -> [source, points]
    bstack,     \* the call stack of build_deptree
    result,     \* what generate_deptree returned
    fetchlog,   \* history: every resolve_name / fetch call and whether it found the file
    roots,      \* build_file: the roots still to emit
    acc,        \* build_file: the lines emitted so far
    visited,    \* build_file: the visited set
    astack,     \* the call stack of subbuild_file
    output,     \* what build_file returned
    prev_files, \* process_file: the files met so far
    arena,      \* process_file: the nodes of the indextree arena
    pstack,     \* the call stack of subprocess_file
    processed,  \* what process_file returned
    runs,       \* history: the root order and the output of each build_file call
    dep1        \* a DepTree generated earlier, kept to be joined with the next

\* The state of the arena-based pipeline.
procVars == <<prev_files, arena, pstack, processed>>

\* The state of the dependency-tree pipeline.
treeVars == <<deptree, bstack, result, roots, acc, visited, astack, output, runs, dep1>>

vars == <<files, seed, pc, deptree, bstack, result, fetchlog,
          roots, acc, visited, astack, output, prev_files, arena, pstack, processed,
          runs, dep1>>

\* FileFetcher::resolve_name: one directory holds every file, so a global and
\* a local reference to the same name resolve to the same identity.
ResolveName(ref) ==
    IF Len(ref.name) = 1 /\ ref.name[1] \in DOMAIN files
    THEN [some |-> TRUE, name |-> Canon(ref.name[1])]
    ELSE [some |-> FALSE, name |-> <<>>]

\* FileFetcher::fetch: FetchedFile {name, content} of the resolved file.
Fetch(ref) ==
    LET r == ResolveName(ref)
    IN  IF r.some
        THEN [some |-> TRUE, name |-> r.name, content |-> files[ref.name[1]]]
        ELSE [some |-> FALSE, name |-> <<>>, content |-> <<>>]

\* ------------------------------------------------------------------ inputs

Plain(tok) == <<tok>>

IncG(n) == Marker \o <<"&", "include", WS, "<", n, ">">>

IncL(n) == Marker \o <<"&", WS, "include", WS, "\"", n, "\"">>

Wrong == Marker \o <<"&", "wrong", WS, "<", "not", WS, "read", ">">>

BadInclude == Marker \o <<"&", "include", WS, NameB>>

Comment == Marker \o <<WS, "a", WS, "normal", WS, "comment">>

Text(lines) == Join(lines, <<NL>>)

SeqsUpTo(S, n) == UNION {[1..k -> S] : k \in 0..n}

\* lib.rs tests::assemble_abc: a.txt -> b.txt -> c.txt -> a.txt
FilesABC ==
    (NameA :> Text(<<Plain("File a.txt begin"), IncG(NameB), Plain("File a.txt end")>>))
 @@ (NameB :> Text(<<Plain("File b.txt begin"), IncG(NameC), Plain("File b.txt end")>>))
 @@ (NameC :> Text(<<Plain("File c.txt begin"), IncG(NameA), Plain("File c.txt end")>>))

\* a.txt <-> b.txt
FilesMutual ==
    (NameA :> Text(<<Plain("a1"), IncG(NameB), Plain("a2")>>))
 @@ (NameB :> Text(<<Plain("b1"), IncL(NameA), Plain("b2")>>))

\* a.txt -> b.txt -> c.txt, the directive at line p of a.txt and line q of b.txt
FilesChain(p, q) ==
    (NameA :> Text(SubSeq(<<Plain("a1"), Plain("a2")>>, 1, p) \o <<IncG(NameB)>>
                   \o SubSeq(<<Plain("a3"), Comment>>, 1, 2 - p)))
 @@ (NameB :> Text(SubSeq(<<Plain("b1"), Plain("b2")>>, 1, q) \o <<IncL(NameC)>>
                   \o SubSeq(<<Plain("b3"), Plain("b4")>>, 1, 2 - q)))
 @@ (NameC :> Text(<<Plain("c1"), <<>>, Plain("c2")>>))

\* a.txt names b.txt twice, once globally and once locally, and c.txt twice
FilesDup ==
    (NameA :> Text(<<Plain("a1"), IncG(NameB), IncL(NameB), IncG(NameC),
                    Plain("a2"), IncG(NameC)>>))
 @@ (NameB :> Text(<<Plain("b1")>>))
 @@ (NameC :> Text(<<Plain("c1")>>))

\* a diamond: a.txt -> b.txt, c.txt; b.txt -> c.txt
FilesDiamond ==
    (NameA :> Text(<<IncG(NameB), Plain("a1"), IncG(NameC)>>))
 @@ (NameB :> Text(<<Plain("b1"), IncG(NameC)>>))
 @@ (NameC :> Text(<<Plain("c1")>>))

\* a cycle with a tail: a.txt -> b.txt, c.txt; b.txt -> a.txt
FilesTail ==
    (NameA :> Text(<<Plain("a1"), IncG(NameB), IncG(NameC)>>))
 @@ (NameB :> Text(<<IncG(NameA), Plain("b1")>>))
 @@ (NameC :> Text(<<Plain("c1")>>))

\* two files that include the same third one and are included by none
FilesShared ==
    (NameA :> Text(<<Plain("a1"), IncG(NameC), Plain("a2")>>))
 @@ (NameB :> Text(<<Plain("b1"), IncL(NameC), Plain("b2")>>))
 @@ (NameC :> Text(<<Plain("c1")>>))

\* files without directives: with empty lines, with and without a final terminator
FilesPlain ==
    (NameA :> Text(<<Plain("a1"), <<>>, Comment>>) \o <<NL>>)
 @@ (NameB :> Text(<<Plain("b1"), Plain("b2")>>))
 @@ (NameC :> <<NL, NL>>)

\* process.rs tests::expect_error, and malformed lines below valid directives
FilesWrong ==
    (NameA :> Text(<<Wrong>>))
 @@ (NameB :> Text(<<IncG(NameD), Plain("b1"), BadInclude, Wrong>>))
 @@ (NameC :> Text(<<IncG(NameA), IncG(NameB)>>))

Scenarios ==
    {[files |-> FilesABC, seed |-> s] : s \in {NameA, NameB, NameC}}
    \cup {[files |-> FilesMutual, seed |-> s] : s \in {NameA, NameB}}
    \cup {[files |-> FilesChain(p, q), seed |-> NameA] : p \in 0..2, q \in 0..2}
    \cup {[files |-> FilesDup, seed |-> NameA],
          [files |-> FilesDiamond, seed |-> NameA],
          [files |-> FilesTail, seed |-> NameA],
          [files |-> FilesShared, seed |-> NameA]}
    \cup {[files |-> f, seed |-> s] : f \in {FilesPlain, FilesWrong},
                                       s \in {NameA, NameB, NameC}}

\* The lines a file of an enumerated system is made of.
Vocab(n) == {Plain(n), IncG(NameA), IncL(NameB), IncG(NameD), Wrong}

\* Every system of a.txt and (possibly missing) b.txt of at most MaxLines lines.
Enumerated ==
    {[files |-> (NameA :> Text(la)), seed |-> s] :
        la \in SeqsUpTo(Vocab(NameA), MaxLines), s \in {NameA, NameB}}
    \cup
    {[files |-> (NameA :> Text(la)) @@ (NameB :> Text(lb)), seed |-> s] :
        la \in SeqsUpTo(Vocab(NameA), MaxLines),
        lb \in SeqsUpTo(Vocab(NameB), MaxLines), s \in {NameA, NameB}}

Inputs == Scenarios \cup Enumerated

\* The texts of the inputs, and the empty text of a placeholder.
Texts == {<<>>} \cup UNION {{inp.files[n] : n \in DOMAIN inp.files} : inp \in Inputs}

\* Source::from_str and Source::process of every text, tabulated: the scan of
\* a text depends on the text alone.
LinesOf == [text \in Texts |-> Lines(text)]

Scanned == [text \in Texts |-> Process(Lines(text))]

\* Source::from_str(text).0
SourceLines(text) == LinesOf[text]

\* Source::from_str(text).process(parser)
Scan(text) == Scanned[text]

\* ----------------------------------------------------------------- deps.rs

EmptyTree == <<>>

\* HashMap::insert
Insert(tree, key, value) ==
    [k \in (DOMAIN tree) \cup {key} |-> IF k = key THEN value ELSE tree[k]]

InsertionPoint(index, fname) == [index |-> index, fname |-> fname]

FileData(source, points) == [source |-> source, points |-> points]

NotFound(ref) == [kind |-> "NotFound", ref |-> ref]

Ok(value) == [ok |-> TRUE, value |-> value]

Err(e) == [ok |-> FALSE, value |-> e]

NoResult == [ok |-> FALSE, value |-> <<>>]

\* A frame of build_deptree: entered ("call"), in its loop over the include
\* points ("loop"), or waiting for the recursive call of point k ("wait").
CallFrame(ref) ==
    [st |-> "call", ref |-> ref, name |-> <<>>, source |-> <<>>,
     points |-> <<>>, incs |-> <<>>, k |-> 1, rname |-> <<>>]

Top(stack) == stack[Len(stack)]

SetTop(stack, frame) == [stack EXCEPT ![Len(stack)] = frame]

Pop(stack) == SubSeq(stack, 1, Len(stack) - 1)

Logged(op, ref, found) == Append(fetchlog, [op |-> op, ref |-> ref, found |-> found])

\* generate_deptree fails: the error is returned and the local tree dropped.
Fail(e) ==
    /\ pc' = "failed"
    /\ result' = Err(e)
    /\ deptree' = EmptyTree
    /\ bstack' = <<>>

Init ==
    /\ \E inp \in Inputs : files = inp.files /\ seed = inp.seed
    /\ pc = "start"
    /\ deptree = EmptyTree
    /\ bstack = <<>>
    /\ result = NoResult
    /\ fetchlog = <<>>
    /\ roots = <<>>
    /\ acc = <<>>
    /\ visited = {}
    /\ astack = <<>>
    /\ output = NoResult
    /\ prev_files = {}
    /\ arena = <<>>
    /\ pstack = <<>>
    /\ processed = NoResult
    /\ runs = <<>>
    /\ dep1 = EmptyTree

\* generate_deptree: resolve the seed, then call build_deptree on it.
GenerateDeptree ==
    /\ pc = "start"
    /\ LET start == LocalTo(<<seed>>, <<".">>)
           r     == ResolveName(start)
       IN  /\ fetchlog' = Logged("resolve_name", start, r.some)
           /\ IF ~r.some
              THEN Fail(NotFound(start))
              ELSE /\ pc' = "build"
                   /\ deptree' = EmptyTree
                   /\ bstack' = <<CallFrame(start)>>
                   /\ result' = Ok(r.name)
    /\ UNCHANGED <<procVars, files, seed, runs, dep1, roots, acc, visited, astack, output>>

\* build_deptree, from its entry to the start of its loop: fetch the file,
\* insert the placeholder, scan the lines.
BuildEnter ==
    /\ pc = "build"
    /\ Top(bstack).st = "call"
    /\ LET fr == Top(bstack)
           f  == Fetch(fr.ref)
           p  == Scan(f.content)
       IN  /\ fetchlog' = Logged("fetch", fr.ref, f.some)
           /\ IF ~f.some THEN Fail(NotFound(fr.ref))
              ELSE IF ~p.ok THEN Fail(p.err)
              ELSE /\ deptree' = Insert(deptree, f.name, FileData(<<>>, <<>>))
                   /\ bstack' = SetTop(bstack,
                         [fr EXCEPT !.st = "loop", !.name = f.name,
                                    !.source = f.content,
                                    !.incs = GetIncludePoints(p.pp)])
                   /\ UNCHANGED <<pc, result>>
    /\ UNCHANGED <<procVars, files, seed, runs, dep1, roots, acc, visited, astack, output>>

\* The reference an include point names.
SubName(ip, name) ==
    IF ip.kind = "Global" THEN Global(ip.fname) ELSE LocalTo(ip.fname, name)

\* Every directive gets an insertion point, also one for a target already present.
AlwaysPresentable(points, rname) == TRUE

\* Whether the file has no insertion point for rname yet.
NotYetPresent(points, rname) ==
    \A j \in 1..Len(points) : points[j].fname # rname

\* No look at the tree either: no target is ever built.
NeverBuild(tree, rname) == FALSE

\* No look at the tree: every target is built again.
AlwaysBuild(tree, rname) == TRUE

\* Whether the tree has no entry for rname yet, so that it is to be built.
NotYetDone(tree, rname) == rname \notin DOMAIN tree

\* build_deptree's loop skipping a directive whose file cannot be resolved.
BuildIncludeSkip ==
    /\ pc = "build"
    /\ Top(bstack).st = "loop"
    /\ Top(bstack).k <= Len(Top(bstack).incs)
    /\ LET fr      == Top(bstack)
           ip      == fr.incs[fr.k]
           subname == SubName(ip, fr.name)
           r       == ResolveName(subname)
       IN  /\ fetchlog' = Logged("resolve_name", subname, r.some)
           /\ IF ~r.some \/ ~NotYetPresent(fr.points, r.name)
              THEN /\ bstack' = SetTop(bstack, [fr EXCEPT !.k = fr.k + 1])
                   /\ UNCHANGED <<pc, result, deptree>>
              ELSE IF ~NotYetDone(deptree, r.name)
              THEN /\ bstack' = SetTop(bstack,
                         [fr EXCEPT !.k = fr.k + 1,
                                    !.points = Append(fr.points,
                                         InsertionPoint(ip.linenr, r.name))])
                   /\ UNCHANGED <<pc, result, deptree>>
              ELSE IF Len(bstack) >= MaxDepth
              THEN /\ pc' = "overflow"
                   /\ UNCHANGED <<result, deptree, bstack>>
              ELSE /\ bstack' = Append(
                         SetTop(bstack, [fr EXCEPT !.st = "wait", !.rname = r.name]),
                         CallFrame(subname))
                   /\ UNCHANGED <<pc, result, deptree>>
    /\ UNCHANGED <<procVars, files, seed, runs, dep1, roots, acc, visited, astack, output>>

\* One iteration of build_deptree's loop, up to the recursive call if it makes one.
BuildInclude ==
    /\ pc = "build"
    /\ Top(bstack).st = "loop"
    /\ Top(bstack).k <= Len(Top(bstack).incs)
    /\ LET fr      == Top(bstack)
           ip      == fr.incs[fr.k]
           subname == SubName(ip, fr.name)
           r       == ResolveName(subname)
       IN  /\ fetchlog' = Logged("resolve_name", subname, r.some)
           /\ IF ~r.some THEN Fail(NotFound(subname))
              ELSE IF ~NotYetPresent(fr.points, r.name)
              THEN /\ bstack' = SetTop(bstack, [fr EXCEPT !.k = fr.k + 1])
                   /\ UNCHANGED <<pc, result, deptree>>
              ELSE IF ~NotYetDone(deptree, r.name)
              THEN /\ bstack' = SetTop(bstack,
                         [fr EXCEPT !.k = fr.k + 1,
                                    !.points = Append(fr.points,
                                         InsertionPoint(ip.linenr, r.name))])
                   /\ UNCHANGED <<pc, result, deptree>>
              ELSE IF Len(bstack) >= MaxDepth
              THEN /\ pc' = "overflow"
                   /\ UNCHANGED <<result, deptree, bstack>>
              ELSE /\ bstack' = Append(
                         SetTop(bstack, [fr EXCEPT !.st = "wait", !.rname = r.name]),
                         CallFrame(subname))
                   /\ UNCHANGED <<pc, result, deptree>>
    /\ UNCHANGED <<procVars, files, seed, runs, dep1, roots, acc, visited, astack, output>>

\* build_deptree returns Ok: the placeholder is replaced by the file's data,
\* and the caller pushes the insertion point it made the call for.
BuildReturn ==
    /\ pc = "build"
    /\ Top(bstack).st = "loop"
    /\ Top(bstack).k > Len(Top(bstack).incs)
    /\ LET fr   == Top(bstack)
           rest == Pop(bstack)
       IN  /\ deptree' = Insert(deptree, fr.name, FileData(fr.source, fr.points))
           /\ IF rest = <<>>
              THEN /\ pc' = "built"
                   /\ bstack' = <<>>
              ELSE LET up == Top(rest)
                   IN  /\ bstack' = SetTop(rest,
                             [up EXCEPT !.st = "loop", !.k = up.k + 1,
                                        !.rname = <<>>,
                                        !.points = Append(up.points,
                                             InsertionPoint(up.incs[up.k].linenr, up.rname))])
                       /\ UNCHANGED pc
    /\ UNCHANGED <<procVars, files, seed, runs, dep1, result, fetchlog, roots, acc, visited, astack, output>>

\* generate_deptree called for one more seed, a file the graph built so far
\* does not hold; the caller keeps that graph to join it with the new one.
GenerateDeptreeNext ==
    /\ pc = "built"
    /\ dep1 = EmptyTree
    /\ \E s \in DOMAIN files :
          /\ Canon(s) \notin DOMAIN deptree
          /\ LET start == LocalTo(<<s>>, <<".">>)
                 r     == ResolveName(start)
             IN  /\ fetchlog' = Logged("resolve_name", start, r.some)
                 /\ dep1' = deptree
                 /\ deptree' = EmptyTree
                 /\ bstack' = <<CallFrame(start)>>
                 /\ result' = Ok(r.name)
                 /\ pc' = "build"
    /\ UNCHANGED <<procVars, files, seed, runs, roots, acc, visited, astack, output>>

\* HashMap::extend: the entries of dep2 are added to dep1, replacing those
\* dep1 has under the same key.
Extend(d1, d2) ==
    [k \in (DOMAIN d1) \cup (DOMAIN d2) |-> IF k \in DOMAIN d2 THEN d2[k] ELSE d1[k]]

\* join_deptrees on the graph kept and the graph just generated
JoinDeptrees ==
    /\ pc = "built"
    /\ dep1 # EmptyTree
    /\ deptree' = Extend(dep1, deptree)
    /\ dep1' = EmptyTree
    /\ UNCHANGED <<procVars, files, seed, runs, pc, bstack, result, fetchlog,
                   roots, acc, visited, astack, output>>

\* ------------------------------------------------------------------ lib.rs

EmptyGraphError == <<"empty dependency tree">>

\* build_file: the targets of all insertion points of the graph
Mentioned(tree) ==
    UNION {{tree[k].points[j].fname : j \in 1..Len(tree[k].points)} : k \in DOMAIN tree}

\* Every key taken for a root.
AllKeys(tree) == DOMAIN tree

\* build_file: the keys no insertion point names
NotMentioned(tree) == (DOMAIN tree) \ Mentioned(tree)

\* The orders in which a HashSet of keys may be iterated.
Orders(S) ==
    {s \in [1..Cardinality(S) -> S] : \A i, j \in 1..Cardinality(S) : i # j => s[i] # s[j]}

\* build_file: the roots, in one of the orders the hash maps may yield them;
\* when every key is mentioned, whichever key the map iterates first.
RootChoices(tree) ==
    IF NotMentioned(tree) = {}
    THEN {<<k>> : k \in DOMAIN tree}
    ELSE Orders(NotMentioned(tree))

\* One call of build_file: the order it took the roots in, and what it returned.
Run(order, out) == [roots |-> order, output |-> out]

\* The visited set of the previous call, kept instead of a new one.
StaleVisited == visited

\* build_file: let mut visited = HashSet::new()
FreshVisited == {}

\* build_file, up to its loop over the roots.  It is called on the graph
\* generate_deptree returned or, by a caller that built none, on DepTree::new().
BuildFile ==
    /\ pc \in {"start", "built"}
    /\ IF DOMAIN deptree = {}
       THEN /\ pc' = "done"
            /\ output' = Err(EmptyGraphError)
            /\ UNCHANGED <<roots, acc, visited, runs>>
       ELSE /\ pc' = "assemble"
            /\ roots' \in RootChoices(deptree)
            /\ acc' = <<>>
            /\ visited' = FreshVisited
            /\ runs' = Append(runs, Run(roots', NoResult))
            /\ UNCHANGED output
    /\ UNCHANGED <<procVars, files, seed, dep1, deptree, bstack, result, fetchlog, astack>>

\* A frame of subbuild_file: entered ("call") or in its loop ("loop"), with
\* the number i of lines consumed and the next insertion point p.
SubCall(fname) == [st |-> "call", fname |-> fname, i |-> 0, p |-> 1]

\* build_file's loop: subbuild_file is called on the next root.
BuildFileRoot ==
    /\ pc = "assemble"
    /\ astack = <<>>
    /\ roots # <<>>
    /\ astack' = <<SubCall(Head(roots))>>
    /\ roots' = Tail(roots)
    /\ UNCHANGED <<procVars, files, seed, runs, dep1, pc, deptree, bstack, result, fetchlog,
                   acc, visited, output>>

\* subbuild_file, from its entry to the start of its loop: the lookup of the
\* file (unwrap panics if the graph has no such key) and visited.insert.
SubbuildEnter ==
    /\ pc = "assemble"
    /\ astack # <<>>
    /\ Top(astack).st = "call"
    /\ LET fr == Top(astack)
       IN  IF fr.fname \notin DOMAIN deptree
           THEN /\ pc' = "panic"
                /\ UNCHANGED <<visited, astack>>
           ELSE /\ visited' = visited \cup {fr.fname}
                /\ astack' = SetTop(astack, [fr EXCEPT !.st = "loop"])
                /\ UNCHANGED pc
    /\ UNCHANGED <<procVars, files, seed, runs, dep1, deptree, bstack, result, fetchlog, roots, acc, output>>

\* The target of every insertion point is emitted, visited or not.
ToEmitAlways(vis, subname) == TRUE

\* Whether the target of an insertion point is to be emitted there.
ToEmit(vis, subname) == subname \notin vis

\* The cursor left on the directive line, which is then copied.
AfterPointKeep(index) == index

\* The line the cursor stands on once the insertion point at index is done.
AfterPoint(index) == index + 1

\* One insertion point of subbuild_file: the lines before it are copied (the
\* inner loop; unwrap panics if the lines run out before the index is met),
\* the line at the index is dropped and the target emitted unless visited.
SubbuildPoint ==
    /\ pc = "assemble"
    /\ astack # <<>>
    /\ Top(astack).st = "loop"
    /\ Top(astack).p <= Len(deptree[Top(astack).fname].points)
    /\ LET fr    == Top(astack)
           lines == SourceLines(deptree[fr.fname].source)
           pt    == deptree[fr.fname].points[fr.p]
           next  == [fr EXCEPT !.i = AfterPoint(pt.index), !.p = fr.p + 1]
       IN  IF ~(fr.i <= pt.index /\ pt.index < Len(lines))
           THEN /\ pc' = "panic"
                /\ acc' = acc \o SubSeq(lines, fr.i + 1, Len(lines))
                /\ UNCHANGED astack
           ELSE /\ acc' = acc \o SubSeq(lines, fr.i + 1, pt.index)
                /\ IF ~ToEmit(visited, pt.fname)
                   THEN /\ astack' = SetTop(astack, next)
                        /\ UNCHANGED pc
                   ELSE IF Len(astack) >= MaxDepth
                   THEN /\ pc' = "overflow"
                        /\ UNCHANGED astack
                   ELSE /\ astack' = Append(SetTop(astack, next), SubCall(pt.fname))
                        /\ UNCHANGED pc
    /\ UNCHANGED <<procVars, files, seed, runs, dep1, deptree, bstack, result, fetchlog, roots, visited, output>>

\* subbuild_file returns: the remaining lines are appended.
SubbuildReturn ==
    /\ pc = "assemble"
    /\ astack # <<>>
    /\ Top(astack).st = "loop"
    /\ Top(astack).p > Len(deptree[Top(astack).fname].points)
    /\ LET fr    == Top(astack)
           lines == SourceLines(deptree[fr.fname].source)
       IN  /\ acc' = acc \o SubSeq(lines, fr.i + 1, Len(lines))
           /\ astack' = Pop(astack)
    /\ UNCHANGED <<procVars, files, seed, runs, dep1, pc, deptree, bstack, result, fetchlog,
                   roots, visited, output>>

\* build_file returns the lines joined.
BuildFileReturn ==
    /\ pc = "assemble"
    /\ astack = <<>>
    /\ roots = <<>>
    /\ output' = Ok(Join(acc, JOIN_SEPARATOR))
    /\ runs' = [runs EXCEPT ![Len(runs)].output = output']
    /\ pc' = "done"
    /\ UNCHANGED <<procVars, files, seed, dep1, deptree, bstack, result, fetchlog,
                   roots, acc, visited, astack>>

\* build_file called once more on the graph it has already assembled (it only
\* borrows the graph), up to its loop over the roots.
BuildFileAgain ==
    /\ pc = "done"
    /\ output.ok
    /\ Len(runs) = 1
    /\ pc' = "assemble"
    /\ roots' \in RootChoices(deptree)
    /\ acc' = <<>>
    /\ visited' = FreshVisited
    /\ runs' = Append(runs, Run(roots', NoResult))
    /\ UNCHANGED <<procVars, files, seed, dep1, deptree, bstack, result, fetchlog,
                   astack, output>>

\* ------------------------------------------- lib.rs: the arena pipeline

\* lib.rs FileData::new and FileData::new_empty, as a node of the arena with
\* its children in the order they were appended.
NewNode(ln, source) == [ln |-> ln, some |-> TRUE, source |-> source, children |-> <<>>]

NewEmptyNode(ln) == [ln |-> ln, some |-> FALSE, source |-> <<>>, children |-> <<>>]

\* NodeId::append
AppendChild(ar, parent, child) ==
    [ar EXCEPT ![parent].children = Append(ar[parent].children, child)]

FetchError(ref) == [kind |-> "FetchError", ref |-> ref]

\* A frame of subprocess_file: entered ("call"), in its loop over the
\* includes ("loop"), or waiting for the recursive call of include k ("wait").
ProcCall(ref, ln) ==
    [st |-> "call", ref |-> ref, ln |-> ln, node |-> 0, name |-> <<>>,
     incs |-> <<>>, k |-> 1]

\* process_file fails: the error is returned.
ProcFail(e) ==
    /\ pc' = "failed"
    /\ processed' = Err(e)
    /\ pstack' = <<>>

\* process_file, up to its call of subprocess_file on the seed.
ProcessFile ==
    /\ pc = "start"
    /\ pc' = "proc"
    /\ prev_files' = {}
    /\ arena' = <<>>
    /\ pstack' = <<ProcCall(Global(<<seed>>), 0)>>
    /\ UNCHANGED <<treeVars, files, seed, fetchlog, processed>>

\* subprocess_file, from its entry to the start of its loop: fetch and scan
\* the file, add it to the visited files, make its node.
SubprocessEnter ==
    /\ pc = "proc"
    /\ Top(pstack).st = "call"
    /\ LET fr == Top(pstack)
           f  == Fetch(fr.ref)
           p  == Scan(f.content)
       IN  /\ fetchlog' = Logged("fetch", fr.ref, f.some)
           /\ IF ~f.some
              THEN ProcFail(FetchError(fr.ref)) /\ UNCHANGED <<prev_files, arena>>
              ELSE IF ~p.ok
              THEN ProcFail(p.err) /\ UNCHANGED <<prev_files, arena>>
              ELSE /\ prev_files' = prev_files \cup {f.name}
                   /\ arena' = Append(arena, NewNode(fr.ln, f.content))
                   /\ pstack' = SetTop(pstack,
                         [fr EXCEPT !.st = "loop", !.name = f.name,
                                    !.node = Len(arena) + 1,
                                    !.incs = GetIncludePoints(p.pp)])
                   /\ UNCHANGED <<pc, processed>>
    /\ UNCHANGED <<treeVars, files, seed>>

\* Every include is taken for an unvisited one.
UnvisitedAlways(prev, rname) == TRUE

\* Whether an include is to be processed: its file has not been met yet.
Unvisited(prev, rname) == rname \notin prev

\* One iteration of subprocess_file's loop, up to the recursive call if it
\* makes one; an include of a file met before gets an empty node.
SubprocessInclude ==
    /\ pc = "proc"
    /\ Top(pstack).st = "loop"
    /\ Top(pstack).k <= Len(Top(pstack).incs)
    /\ LET fr   == Top(pstack)
           ip   == fr.incs[fr.k]
           next == SubName(ip, fr.name)
           r    == ResolveName(next)
       IN  /\ fetchlog' = Logged("resolve_name", next, r.some)
           /\ IF ~r.some
              THEN ProcFail(FetchError(next)) /\ UNCHANGED arena
              ELSE IF ~Unvisited(prev_files, r.name)
              THEN /\ arena' = AppendChild(Append(arena, NewEmptyNode(ip.linenr)),
                                           fr.node, Len(arena) + 1)
                   /\ pstack' = SetTop(pstack, [fr EXCEPT !.k = fr.k + 1])
                   /\ UNCHANGED <<pc, processed>>
              ELSE IF Len(pstack) >= MaxDepth
              THEN /\ pc' = "overflow"
                   /\ UNCHANGED <<arena, pstack, processed>>
              ELSE /\ pstack' = Append(SetTop(pstack, [fr EXCEPT !.st = "wait"]),
                                       ProcCall(next, ip.linenr))
                   /\ UNCHANGED <<pc, arena, processed>>
    /\ UNCHANGED <<treeVars, files, seed, prev_files>>

\* assemble: the lines of a node with the lines of its children spliced in at
\* their line numbers; [ok, value], not ok where the code panics (the
\* assertion, split_at beyond the remaining lines, the slice of an empty rest).
RECURSIVE Assemble(_, _)
RECURSIVE AssembleChildren(_, _, _, _, _, _)
AssembleChildren(ar, root, remaining, c, i, collector) ==
    IF c > Len(ar[root].children) THEN Ok(collector \o remaining)
    ELSE LET child == ar[root].children[c]
             mid   == ar[child].ln - i
         IN  IF Len(remaining) = 0 \/ mid < 0 \/ mid >= Len(remaining)
             THEN Err(<<"panic">>)
             ELSE LET sub == Assemble(ar, child)
                  IN  IF ~sub.ok THEN sub
                      ELSE AssembleChildren(ar, root,
                               SubSeq(remaining, mid + 2, Len(remaining)),
                               c + 1, i + mid + 1,
                               collector \o SubSeq(remaining, 1, mid) \o sub.value)

Assemble(ar, root) ==
    IF ~ar[root].some THEN Ok(<<>>)
    ELSE AssembleChildren(ar, root, SourceLines(ar[root].source), 1, 0, <<>>)

\* ProcessResult {file, included_files}
ProcessResult(file, included) == [file |-> file, included_files |-> included]

\* subprocess_file returns its node: the caller appends it to its own; the
\* call process_file made is followed by assemble and the join of the lines.
SubprocessReturn ==
    /\ pc = "proc"
    /\ Top(pstack).st = "loop"
    /\ Top(pstack).k > Len(Top(pstack).incs)
    /\ LET fr   == Top(pstack)
           rest == Pop(pstack)
       IN  IF rest = <<>>
           THEN LET lines == Assemble(arena, fr.node)
                IN  /\ pstack' = <<>>
                    /\ IF lines.ok
                       THEN /\ pc' = "done"
                            /\ processed' = Ok(ProcessResult(
                                   Join(lines.value, JOIN_SEPARATOR), prev_files))
                       ELSE /\ pc' = "panic"
                            /\ UNCHANGED processed
                    /\ UNCHANGED arena
           ELSE LET up == Top(rest)
                IN  /\ arena' = AppendChild(arena, up.node, fr.node)
                    /\ pstack' = SetTop(rest, [up EXCEPT !.st = "loop", !.k = up.k + 1])
                    /\ UNCHANGED <<pc, processed>>
    /\ UNCHANGED <<treeVars, files, seed, fetchlog, prev_files>>

Next ==
    \/ GenerateDeptree
    \/ BuildEnter
    \/ BuildInclude
    \/ BuildReturn
    \/ BuildFile
    \/ BuildFileRoot
    \/ SubbuildEnter
    \/ SubbuildPoint
    \/ SubbuildReturn
    \/ BuildFileReturn

Spec == Init /\ [][Next]_vars

\* The arena-based pipeline: process_file.
NextProc ==
    \/ ProcessFile
    \/ SubprocessEnter
    \/ SubprocessInclude
    \/ SubprocessReturn

SpecProc == Init /\ [][NextProc]_vars

\* The scheduling of the code: a single thread that runs until it returns.
FairSpec == Spec /\ WF_vars(Next)

\* The dependency-tree pipeline with build_file called a second time.
NextTwice ==
    \/ Next
    \/ BuildFileAgain

SpecTwice == Init /\ [][NextTwice]_vars

\* The dependency-tree pipeline with graphs of several seeds joined.
NextJoin ==
    \/ Next
    \/ GenerateDeptreeNext
    \/ JoinDeptrees

SpecJoin == Init /\ [][NextJoin]_vars

\* ------------------------------------------------------- reading the files

\* A successful generate_deptree has returned its graph.
Generated == result.ok /\ pc \in {"built", "assemble", "done", "panic", "overflow"}

\* build_file has returned a text for a graph generate_deptree built.
Assembled == Generated /\ pc = "done" /\ output.ok

\* The 1-based positions of the lines the parser takes for commands.
DirectiveLines(lines) == {i \in 1..Len(lines) : IsDirective(lines[i])}

\* The 1-based positions of the well-formed include directives.
IncludeLines(lines) ==
    {i \in 1..Len(lines) : ParseLine(lines[i]).kind \in {"Include", "IncludeLocal"}}

\* The reference an include directive of the file with identity owner makes.
IncludeRef(line, owner) ==
    IF ParseLine(line).kind = "Include"
    THEN Global(ParseLine(line).arg)
    ELSE LocalTo(ParseLine(line).arg, owner)

\* The name of the file an include directive names ("" if it names no file).
TargetName(line) ==
    IF ParseLine(line).kind \in {"Include", "IncludeLocal"}
       /\ Len(ParseLine(line).arg) = 1
       /\ ParseLine(line).arg[1] \in DOMAIN files
    THEN ParseLine(line).arg[1]
    ELSE ""

\* The names of the existing files reachable from the names in S.
RECURSIVE ReachNames(_)
ReachNames(S) ==
    LET more == S \cup UNION {{TargetName(Lines(files[n])[i]) :
                                  i \in IncludeLines(Lines(files[n]))} : n \in S}
        next == more \cap DOMAIN files
    IN  IF next = S THEN S ELSE ReachNames(next)

\* Whether the graph holds a cycle of insertion points.
RECURSIVE Descendants(_, _)
Descendants(tree, S) ==
    LET next == S \cup UNION {{tree[k].points[j].fname : j \in 1..Len(tree[k].points)} :
                                k \in S \cap DOMAIN tree}
    IN  IF next = S THEN S ELSE Descendants(tree, next)

OnCycle(tree, k) ==
    k \in Descendants(tree, {tree[k].points[j].fname : j \in 1..Len(tree[k].points)})

\* ------------------------------------------------------------------ claims

ExpectedABC ==
    Text(<<Plain("File a.txt begin"), Plain("File b.txt begin"), Plain("File c.txt begin"),
           Plain("File c.txt end"), Plain("File b.txt end"), Plain("File a.txt end")>>)

ExpectedMutual == Text(<<Plain("a1"), Plain("b1"), Plain("b2"), Plain("a2")>>)

\* C1: seeded at a.txt on the three-file cycle a.txt -> b.txt -> c.txt -> a.txt,
\* generate_deptree followed by build_file yields exactly a-begin, b-begin,
\* c-begin, c-end, b-end, a-end; seeded at a.txt on the mutual cycle it yields
\* a.txt's content with b.txt spliced in once.
C1_SeedFirstOnCycle ==
    (pc = "done" /\ Generated) =>
        /\ (files = FilesABC /\ seed = NameA) => output = Ok(ExpectedABC)
        /\ (files = FilesMutual /\ seed = NameA) => output = Ok(ExpectedMutual)

\* C2: generate_deptree returns (a graph or an error) and build_file returns on
\* whatever graph it is given; neither runs out of stack nor aborts.
C2_BuildAndAssembleTerminate ==
    /\ (pc = "build") ~> (pc \in {"built", "failed"})
    /\ (pc = "assemble") ~> (pc = "done")

\* C2's case: a graph with a cycle has been built and assembled.
C2_Witness ==
    /\ Assembled
    /\ \E k \in DOMAIN deptree : OnCycle(deptree, k)
    /\ \E k \in DOMAIN deptree :
          \E j \in 1..Len(deptree[k].points) : deptree[k].points[j].fname = k

\* C3: the text build_file returns for a generated graph has no line that the
\* parser takes for a directive.
C3_NoDirectiveInOutput ==
    Assembled =>
        \A i \in 1..Len(Lines(output.value)) : ~IsDirective(Lines(output.value)[i])

\* C4: for a seed file without directive lines, build_file returns the file's
\* raw text unchanged.
C4_IdentityRoundTrip ==
    (Assembled /\ DirectiveLines(Lines(files[seed])) = {}) =>
        output.value = files[seed]

\* The one element of a singleton.
Only(S) == CHOOSE x \in S : TRUE

\* The seed includes one file, which includes one other file, which includes none.
IsChain ==
    /\ seed \in DOMAIN files
    /\ LET A  == Lines(files[seed])
           nB == TargetName(A[Only(DirectiveLines(A))])
       IN  /\ Cardinality(DirectiveLines(A)) = 1
           /\ nB \in (DOMAIN files) \ {seed}
           /\ LET B  == Lines(files[nB])
                  nC == TargetName(B[Only(DirectiveLines(B))])
              IN  /\ Cardinality(DirectiveLines(B)) = 1
                  /\ nC \in (DOMAIN files) \ {seed, nB}
                  /\ DirectiveLines(Lines(files[nC])) = {}

\* What the chain is to assemble to.
ChainExpected ==
    LET A  == Lines(files[seed])
        iA == Only(DirectiveLines(A))
        B  == Lines(files[TargetName(A[iA])])
        iB == Only(DirectiveLines(B))
        C  == Lines(files[TargetName(B[iB])])
    IN  SubSeq(A, 1, iA - 1) \o SubSeq(B, 1, iB - 1) \o C
        \o SubSeq(B, iB + 1, Len(B)) \o SubSeq(A, iA + 1, Len(A))

\* C5: for a chain A -> B -> C, build_file returns A's lines before its
\* directive, B's lines before its directive, C's lines, B's lines after its
\* directive and A's lines after its directive.
C5_ChainSplice ==
    (pc = "done" /\ Generated /\ IsChain) =>
        output = Ok(Join(ChainExpected, JOIN_SEPARATOR))

\* C5's case: a chain assembled whose directives have lines before and after them.
C5_Witness ==
    /\ pc = "done" /\ Generated /\ IsChain
    /\ LET A  == Lines(files[seed])
           iA == Only(DirectiveLines(A))
           B  == Lines(files[TargetName(A[iA])])
           iB == Only(DirectiveLines(B))
       IN  1 < iA /\ iA < Len(A) /\ 1 < iB /\ iB < Len(B)

\* The identity an include directive resolves to.
TargetId(line, owner) == ResolveName(IncludeRef(line, owner)).name

\* C6: in every record of a generated graph the insertion points have distinct
\* targets, every identity a directive of the record's text resolves to has an
\* insertion point, and that point is at the first directive resolving to it.
C6_OnePointPerTarget ==
    Generated =>
        \A k \in DOMAIN deptree :
            LET pts   == deptree[k].points
                lines == Lines(deptree[k].source)
                at(t) == {i \in IncludeLines(lines) : TargetId(lines[i], k) = t}
            IN  /\ \A i, j \in 1..Len(pts) : i # j => pts[i].fname # pts[j].fname
                /\ \A i \in IncludeLines(lines) :
                      \E j \in 1..Len(pts) : pts[j].fname = TargetId(lines[i], k)
                /\ \A j \in 1..Len(pts) :
                      /\ at(pts[j].fname) # {}
                      /\ pts[j].index = Min(at(pts[j].fname)) - 1

\* C6's case: a record whose text has two directives to one identity.
C6_Witness ==
    /\ Generated
    /\ \E k \in DOMAIN deptree :
          LET lines == Lines(deptree[k].source)
          IN  \E i, j \in IncludeLines(lines) :
                 /\ i < j
                 /\ TargetId(lines[i], k) = TargetId(lines[j], k)
                 /\ ParseLine(lines[i]).kind # ParseLine(lines[j]).kind

\* Whether every include directive of every file reachable from the seed resolves.
AllResolvable ==
    /\ seed \in DOMAIN files
    /\ \A n \in ReachNames({seed}) :
          \A i \in IncludeLines(Lines(files[n])) :
              ResolveName(IncludeRef(Lines(files[n])[i], Canon(n))).some

\* C7: generate_deptree returns a graph only if the seed and every file
\* reachable from it resolve; when it fails it returns the error and no graph;
\* a fetcher call that finds nothing is the last one made, and its reference is
\* the one the error names.
C7_FailFast ==
    /\ Generated => AllResolvable
    /\ pc = "failed" => (~result.ok /\ deptree = EmptyTree /\ bstack = <<>>)
    /\ \A i \in 1..Len(fetchlog) :
          ~fetchlog[i].found =>
              /\ i = Len(fetchlog)
              /\ pc = "failed"
              /\ result = Err(NotFound(fetchlog[i].ref))

\* C7's case: the build failed on an include, after files were fetched and with
\* directives left unresolved.
C7_Witness ==
    /\ pc = "failed"
    /\ Len(fetchlog) >= 4
    /\ ~Last(fetchlog).found
    /\ Last(fetchlog).ref.kind = "Global"
    /\ \E n \in DOMAIN files :
          \E i \in IncludeLines(Lines(files[n])) :
              \A j \in 1..Len(fetchlog) :
                  fetchlog[j].ref # IncludeRef(Lines(files[n])[i], Canon(n))

WrongMessage ==
    <<"invalid preproc statement", <<"wrong", WS, "<", "not", WS, "read", ">">>>>

\* C8: a build that fails with a parse error reports the 0-based index of the
\* first malformed line of the file it fetched last, with the parser's message,
\* and no directive of that file has been resolved (the fetch is the last
\* fetcher call); no file with a malformed line is scanned further; for
\* `//&wrong <not read>` the error is line 0 with the message naming
\* `wrong <not read>`.
C8_ParseErrorAtFirstMalformed ==
    /\ (pc = "failed" /\ result.value.kind = "ParseError") =>
          LET e     == result.value
              last  == Last(fetchlog)
              lines == Lines(files[last.ref.name[1]])
          IN  /\ last.op = "fetch" /\ last.found
              /\ e.line + 1 \in 1..Len(lines)
              /\ ParseLine(lines[e.line + 1]) = [kind |-> "Err", arg |-> e.msg]
              /\ \A j \in 1..e.line : ParseLine(lines[j]).kind # "Err"
    /\ \A d \in 1..Len(bstack) :
          bstack[d].st # "call" =>
              \A j \in 1..Len(Lines(bstack[d].source)) :
                  ParseLine(Lines(bstack[d].source)[j]).kind # "Err"
    /\ (files = FilesWrong /\ seed = NameA /\ pc \notin {"start", "build"} /\ output = NoResult) =>
          result = Err([kind |-> "ParseError", line |-> 0, msg |-> WrongMessage])

\* C8's case: a parse error in a file with include directives above the
\* malformed line and a second malformed line below it.
C8_Witness ==
    /\ pc = "failed"
    /\ result.value.kind = "ParseError"
    /\ result.value.line > 0
    /\ LET lines == Lines(files[Last(fetchlog).ref.name[1]])
       IN  /\ \E j \in 1..result.value.line : j \in IncludeLines(lines)
           /\ \E j \in (result.value.line + 2)..Len(lines) :
                 ParseLine(lines[j]).kind = "Err"

\* C9: build_file returns an error exactly on the graph without entries, the
\* empty-graph error; on a generated graph it returns a text and never aborts
\* on a missing key or on running out of lines.
C9_FailsOnlyOnEmptyGraph ==
    /\ pc \notin {"panic", "overflow"}
    /\ pc = "done" =>
          /\ output.ok <=> DOMAIN deptree # {}
          /\ ~output.ok => output = Err(EmptyGraphError)
          /\ Generated => output.ok

\* C9's case: a generated graph assembled whose record ends in an insertion
\* point (the index is the last line) and has a suppressed back-reference.
C9_Witness ==
    /\ Assembled
    /\ \E k \in DOMAIN deptree :
          /\ Len(deptree[k].points) >= 2
          /\ Last(deptree[k].points).index = Len(Lines(deptree[k].source)) - 1
          /\ OnCycle(deptree, k)

\* The seed's text expanded: its lines in order, each include directive
\* replaced by the expansion of its file unless that file has been met, in
\* depth-first, top-to-bottom order; [lines, seen].
RECURSIVE ExpandFile(_, _)
RECURSIVE ExpandLines(_, _, _, _)
ExpandLines(lines, i, seen, out) ==
    IF i > Len(lines) THEN [lines |-> out, seen |-> seen]
    ELSE IF i \notin IncludeLines(lines)
    THEN ExpandLines(lines, i + 1, seen, Append(out, lines[i]))
    ELSE IF TargetName(lines[i]) \in seen
    THEN ExpandLines(lines, i + 1, seen, out)
    ELSE LET sub == ExpandFile(TargetName(lines[i]), seen)
         IN  ExpandLines(lines, i + 1, sub.seen, out \o sub.lines)

ExpandFile(n, seen) == ExpandLines(Lines(files[n]), 1, seen \cup {n}, <<>>)

\* process_file has returned a ProcessResult.
Processed == pc = "done" /\ processed.ok

\* Whether the text starts with the line.
StartsWith(text, line) ==
    /\ Len(text) >= Len(line)
    /\ SubSeq(text, 1, Len(line)) = line
    /\ (Len(text) > Len(line) => text[Len(line) + 1] = NL)

ExpectedCAB ==
    Text(<<Plain("File c.txt begin"), Plain("File a.txt begin"), Plain("File b.txt begin"),
           Plain("File b.txt end"), Plain("File a.txt end"), Plain("File c.txt end")>>)

\* What process_file returns is the expansion of the seed, and on the cycle
\* a.txt -> b.txt -> c.txt -> a.txt the texts of lib.rs's tests.
ExpansionFromSeed ==
    /\ processed.value.file = Join(ExpandFile(seed, {}).lines, JOIN_SEPARATOR)
    /\ processed.value.included_files = {Canon(n) : n \in ExpandFile(seed, {}).seen}
    /\ (files = FilesABC /\ seed = NameA) => processed.value.file = ExpectedABC
    /\ (files = FilesABC /\ seed = NameC) => processed.value.file = ExpectedCAB

\* C10 as stated: process_file returns the seed's lines with each directive
\* replaced by the expansion of its target if not met before and by nothing
\* otherwise, and the text it returns always starts with the seed's own content
\* (its first line that is no directive).
C10_OutputStartsWithSeedContent ==
    Processed =>
        /\ ExpansionFromSeed
        /\ LET lines == Lines(files[seed])
               own   == (1..Len(lines)) \ DirectiveLines(lines)
           IN  processed.value.file # <<>> =>
                   (own # {} /\ StartsWith(processed.value.file, lines[Min(own)]))

\* C10 amended: process_file returns the expansion of the seed; the text
\* starts with the seed's first line whenever that line is no directive.
C10_ExpansionRootedAtSeed ==
    Processed =>
        /\ ExpansionFromSeed
        /\ LET lines == Lines(files[seed])
           IN  (lines # <<>> /\ ~IsDirective(lines[1])) =>
                   StartsWith(processed.value.file, lines[1])

\* C10's case: three files processed, with an include of a file met before
\* (an empty node) and the seed not named a.txt.
C10_Witness ==
    /\ Processed
    /\ seed # NameA
    /\ Cardinality(processed.value.included_files) = 3
    /\ \E x \in 1..Len(arena) : ~arena[x].some

\* ---------------------------------------------------------------------- C11

\* C11: two calls of build_file on the same graph that take the roots in the
\* same order (the same fallback root when every key is mentioned) return
\* the same text.
C11_SameRootsSameOutput ==
    (pc = "done" /\ Len(runs) = 2 /\ runs[1].roots = runs[2].roots)
        => runs[1].output = runs[2].output

\* build_file has returned twice on a cyclic graph of two or more files, both
\* times from the same fallback root.
C11_Witness ==
    /\ pc = "done"
    /\ Len(runs) = 2
    /\ runs[1].roots = runs[2].roots
    /\ runs[2].output.ok
    /\ NotMentioned(deptree) = {}
    /\ Cardinality(DOMAIN deptree) >= 2
    /\ Len(acc) >= 2

\* ---------------------------------------------------------------------- C12

\* How many times a line occurs in a sequence of lines.
Count(lines, line) == Cardinality({i \in 1..Len(lines) : lines[i] = line})

\* How many times a line occurs in the files of the graph, all together.
RECURSIVE CountInGraph(_, _, _)
CountInGraph(tree, keys, line) ==
    IF keys = {} THEN 0
    ELSE LET k == CHOOSE x \in keys : TRUE
         IN  Count(SourceLines(tree[k].source), line)
             + CountInGraph(tree, keys \ {k}, line)

\* The lines of the files of the graph that are no directives.
OrdinaryLines(tree) ==
    UNION {{l \in {SourceLines(tree[k].source)[i] :
                       i \in 1..Len(SourceLines(tree[k].source))} : ~IsDirective(l)} :
           k \in DOMAIN tree}

\* C12: the text build_file returns for a generated graph holds the
\* non-directive lines of every file of the graph exactly once, whichever
\* root was selected.
C12_EveryFileEmittedOnce ==
    Assembled =>
        \A l \in OrdinaryLines(deptree) :
            Count(acc, l) = CountInGraph(deptree, DOMAIN deptree, l)

\* ---------------------------------------------------------------------- C13

\* The keys of the graph that no insertion point of the graph targets.
Untargeted ==
    {k \in DOMAIN deptree :
        \A k2 \in DOMAIN deptree :
            \A j \in 1..Len(deptree[k2].points) : deptree[k2].points[j].fname # k}

\* No file reachable from the seed has an include directive naming the seed.
SeedNotIncluded ==
    /\ seed \in DOMAIN files
    /\ \A n \in ReachNames({seed}) :
           \A i \in IncludeLines(Lines(files[n])) : TargetName(Lines(files[n])[i]) # seed

\* The roots the running or last call of build_file started from are the
\* untargeted keys, each once; one key of the graph when there are none; and
\* the seed alone when no reachable file includes the seed.
RootsAreUntargeted ==
    LET r == runs[Len(runs)].roots
        R == {r[i] : i \in 1..Len(r)}
    IN  /\ Len(r) = Cardinality(R)
        /\ Untargeted # {} => R = Untargeted
        /\ Untargeted = {} => (Len(r) = 1 /\ R \subseteq DOMAIN deptree)
        /\ SeedNotIncluded => r = <<Canon(seed)>>

\* C13 as stated: build_file starts from exactly the keys no insertion point
\* targets; for a seed no reachable file includes that is the seed alone, so
\* the output starts with the seed's own content (its first line that is no
\* directive).
C13_OutputStartsWithSeed ==
    (Generated /\ pc \in {"assemble", "done"} /\ runs # <<>>) =>
        /\ RootsAreUntargeted
        /\ (Assembled /\ SeedNotIncluded /\ output.value # <<>>) =>
               LET lines == Lines(files[seed])
                   own   == (1..Len(lines)) \ DirectiveLines(lines)
               IN  own # {} /\ StartsWith(output.value, lines[Min(own)])

\* C13 amended: the roots are as stated and the seed alone when no reachable
\* file includes it; the output then starts with the seed's first line
\* whenever that line is no directive.
C13_RootsAreUntargetedKeys ==
    (Generated /\ pc \in {"assemble", "done"} /\ runs # <<>>) =>
        /\ RootsAreUntargeted
        /\ (Assembled /\ SeedNotIncluded) =>
               LET lines == Lines(files[seed])
               IN  (lines # <<>> /\ ~IsDirective(lines[1])) =>
                       StartsWith(output.value, lines[1])

\* C13's case: a graph of three files whose seed no file includes has been
\* assembled from the seed as its only root.
C13_Witness ==
    /\ Assembled
    /\ SeedNotIncluded
    /\ Cardinality(DOMAIN deptree) >= 3
    /\ runs[1].roots = <<Canon(seed)>>
    /\ ~IsDirective(Lines(files[seed])[1])
    /\ Len(acc) >= 3

\* ---------------------------------------------------------------------- C14

\* Within one pass no line of a file is in acc more often than the files of
\* the graph hold it, a file being entered is not yet visited, and no file
\* is being emitted twice at once.
EmittedAtMostOnce ==
    (pc \in {"assemble", "done"} /\ runs # <<>>) =>
        /\ \A l \in OrdinaryLines(deptree) :
               Count(acc, l) <= CountInGraph(deptree, DOMAIN deptree, l)
        /\ \A d \in 1..Len(astack) :
               /\ astack[d].st = "call" => astack[d].fname \notin visited
               /\ astack[d].st = "loop" => astack[d].fname \in visited
               /\ \A e \in 1..Len(astack) : astack[d].fname = astack[e].fname => d = e

\* The visited set only grows during a pass, over all its roots.
VisitedGrows == (pc = "assemble" /\ pc' \in {"assemble", "done"}) => visited \subseteq visited'

\* At an insertion point the lines before it are copied and the cursor moves
\* past its line; a visited target adds no line and no call, an unvisited one
\* is entered there.
PointStep ==
    (/\ pc = "assemble" /\ pc' = "assemble"
     /\ astack # <<>>
     /\ Top(astack).st = "loop"
     /\ Top(astack).p <= Len(deptree[Top(astack).fname].points)
     /\ astack' # astack)
    => LET fr    == Top(astack)
           lines == Lines(deptree[fr.fname].source)
           pt    == deptree[fr.fname].points[fr.p]
       IN  /\ acc' = acc \o SubSeq(lines, fr.i + 1, pt.index)
           /\ astack'[Len(astack)].i = pt.index + 1
           /\ astack'[Len(astack)].p = fr.p + 1
           /\ pt.fname \in visited => Len(astack') = Len(astack)
           /\ pt.fname \notin visited =>
                  (Len(astack') = Len(astack) + 1 /\ Top(astack')= SubCall(pt.fname))

\* C14: within one build_file pass the visited set is shared by all roots and
\* only grows, each identity's content is emitted at most once, at the first
\* insertion point that reaches it, and every later insertion point to it
\* adds no lines while its directive line is still dropped.
C14_VisitedSharedEmittedOnce ==
    /\ []EmittedAtMostOnce
    /\ [][VisitedGrows /\ PointStep]_vars

\* C14's case: two roots that include the same file have been assembled in
\* one pass, the file emitted under the first root only.
C14_Witness ==
    /\ pc = "done"
    /\ output.ok
    /\ Len(runs[Len(runs)].roots) = 2
    /\ \E k \in DOMAIN deptree :
          /\ deptree[k].points = <<>>
          /\ \A r \in {runs[Len(runs)].roots[1], runs[Len(runs)].roots[2]} :
                 \E j \in 1..Len(deptree[r].points) : deptree[r].points[j].fname = k
          /\ Lines(deptree[k].source) # <<>>
          /\ Count(acc, Lines(deptree[k].source)[1]) = 1
    /\ Len(acc) = 5

\* ---------------------------------------------------------------------- C15

\* The identities of the files build_deptree is scanning: the frames past
\* their fetch.
BeingScanned == {bstack[d].name : d \in {e \in 1..Len(bstack) : bstack[e].st # "call"}}

\* C15: during construction and in the graph returned, every insertion point
\* of every record in the graph names a key of the graph: a placeholder while
\* that file is still being scanned, the record with the file's full text
\* once its build has returned.
C15_TargetsAreKeys ==
    /\ \A k \in DOMAIN deptree :
           \A j \in 1..Len(deptree[k].points) :
               deptree[k].points[j].fname \in DOMAIN deptree
    /\ pc = "build" =>
           /\ BeingScanned \subseteq DOMAIN deptree
           /\ \A k \in DOMAIN deptree :
                  IF k \in BeingScanned
                  THEN deptree[k] = FileData(<<>>, <<>>)
                  ELSE deptree[k].source = files[k[2]]
    /\ Generated => \A k \in DOMAIN deptree : deptree[k].source = files[k[2]]

\* C15's case: during construction a finished record has an insertion point
\* whose target is still a placeholder.
C15_Witness ==
    /\ pc = "build"
    /\ \E k \in DOMAIN deptree :
          \E j \in 1..Len(deptree[k].points) :
              LET t == deptree[k].points[j].fname
              IN  /\ t \in BeingScanned
                  /\ deptree[t] = FileData(<<>>, <<>>)
                  /\ files[t[2]] # <<>>

\* ---------------------------------------------------------------------- C16

\* C16: in every record of a generated graph the indices of the insertion
\* points are 0-based positions of include directives of the record's own
\* text that resolve to the point's target, each less than the number of
\* lines, and strictly increasing along the list.
C16_IndicesAscendingInRange ==
    Generated =>
        \A k \in DOMAIN deptree :
            LET lines  == Lines(deptree[k].source)
                points == deptree[k].points
            IN  /\ \A j \in 1..Len(points) :
                       /\ 0 <= points[j].index
                       /\ points[j].index < Len(lines)
                       /\ points[j].index + 1 \in IncludeLines(lines)
                       /\ TargetId(lines[points[j].index + 1], k) = points[j].fname
                /\ \A i, j \in 1..Len(points) :
                       i < j => points[i].index < points[j].index

\* C16's case: a record of a generated graph has two insertion points, the
\* first of them not on the first line, with an ordinary line between them.
C16_Witness ==
    /\ Generated
    /\ \E k \in DOMAIN deptree :
          /\ Len(deptree[k].points) >= 2
          /\ deptree[k].points[1].index >= 1
          /\ deptree[k].points[2].index > deptree[k].points[1].index + 1

====
